---- MODULE Spec2Model ----
(***************************************************************************)
(* generatePDF of src/lib/pdf-generator.ts as a state machine.             *)
(*                                                                         *)
(* Spec / FairSpec: the asynchronous control flow of one call: the awaited *)
(* image loads, the caption (direct text or the rasterised fallback, whose *)
(* promise nobody awaits), the Document Writer calls in the order they are *)
(* made, the try/catch around the whole layout.                            *)
(*                                                                         *)
(* LayoutSpec: the layout arithmetic of one page (calculateImageDimensions *)
(* and the placement of the single-image and the side-by-side slot) in the *)
(* binary64 arithmetic of JS numbers, over all small intrinsic sizes.      *)
(***************************************************************************)
EXTENDS Integers, Sequences, FiniteSets

VARIABLES
    n,            \* images.length of this call
    pc,           \* 0: awaiting import("jspdf"); k: at step k of Program(n)
    status,       \* the promise generatePDF returned: running/resolved/rejected
    err,          \* what it rejected with
    fault,        \* the failure injected into the main flow, if any
    load,         \* load[i]: the promise of loadImage(images[i-1].url)
    raster,       \* raster[p]: the addTextAsImage round trip issued on page p
    awaitRaster,  \* generatePDF is suspended on an addTextAsImage promise
    pages,        \* number of pages of the jsPDF document
    curPage,      \* the page jsPDF draws on
    log,          \* the Document Writer calls that completed, in order
    saveCalled,   \* pdf.save was called
    delivered,    \* pdf.save completed
    layout,       \* the slot kind laid out: none / single / sideBySide
    imgs,         \* the decoded images of the page: intrinsic width, height
    place         \* place[k]: x, y, width, height handed to pdf.addImage

procVars == <<n, pc, status, err, fault, load, raster, awaitRaster,
              pages, curPage, log, saveCalled, delivered>>

layVars == <<layout, imgs, place>>

vars == <<procVars, layVars>>

\* Largest images.length the model feeds to generatePDF.
MaxImages == 4

\* Largest intrinsic width and height (pixels) of a decoded image.
MaxDim == 7

(***************************************************************************)
(* JS numbers: IEEE-754 binary64, round to nearest, ties to even.          *)
(* A number is [sign, m, e] with value sign * m * 2^e, where m is a        *)
(* natural of exactly 53 bits kept as little-endian limbs of 15 bits       *)
(* (the empty sequence for zero).  The magnitudes of the layout stay far   *)
(* from overflow and from subnormals, so the exponent is unbounded here.   *)
(***************************************************************************)
Base == 2^15

\* The element of a singleton set.  { F(x) : x \in {e} } evaluates e once and
\* hands F its value, where an operator argument would be evaluated again at
\* every use.
The(S) == CHOOSE x \in S : TRUE

Precision == 53

RECURSIVE BNorm(_)
\* Drops the zero limbs at the top.
BNorm(a) ==
    IF a = << >> THEN << >>
    ELSE IF a[Len(a)] = 0 THEN BNorm(SubSeq(a, 1, Len(a) - 1))
    ELSE a

RECURSIVE BFromInt(_)
BFromInt(k) == IF k = 0 THEN << >> ELSE <<k % Base>> \o BFromInt(k \div Base)

Limb(a, i) == IF i <= Len(a) THEN a[i] ELSE 0

RECURSIVE BCmpFrom(_, _, _)
BCmpFrom(a, b, i) ==
    IF i = 0 THEN 0
    ELSE IF a[i] < b[i] THEN -1
    ELSE IF a[i] > b[i] THEN 1
    ELSE BCmpFrom(a, b, i - 1)

\* -1, 0, 1 as a < b, a = b, a > b (both without leading zero limbs).
BCmp(a, b) ==
    IF Len(a) < Len(b) THEN -1
    ELSE IF Len(a) > Len(b) THEN 1
    ELSE BCmpFrom(a, b, Len(a))

RECURSIVE BAddFrom(_, _, _, _)
BAddFrom(a, b, i, carry) ==
    IF i > Len(a) /\ i > Len(b)
    THEN IF carry = 0 THEN << >> ELSE <<carry>>
    ELSE LET s == Limb(a, i) + Limb(b, i) + carry
         IN  <<s % Base>> \o BAddFrom(a, b, i + 1, s \div Base)

BAdd(a, b) == BAddFrom(a, b, 1, 0)

RECURSIVE BSubFrom(_, _, _, _)
BSubFrom(a, b, i, borrow) ==
    IF i > Len(a) THEN << >>
    ELSE LET d == a[i] - Limb(b, i) - borrow
         IN  IF d < 0 THEN <<d + Base>> \o BSubFrom(a, b, i + 1, 1)
             ELSE <<d>> \o BSubFrom(a, b, i + 1, 0)

\* a - b for a >= b.
BSub(a, b) == BNorm(BSubFrom(a, b, 1, 0))

RECURSIVE BMulSmallFrom(_, _, _, _)
BMulSmallFrom(a, k, i, carry) ==
    IF i > Len(a)
    THEN IF carry = 0 THEN << >> ELSE <<carry>>
    ELSE LET p == a[i] * k + carry
         IN  <<p % Base>> \o BMulSmallFrom(a, k, i + 1, p \div Base)

\* a * k for 0 <= k <= Base.
BMulSmall(a, k) == IF k = 0 THEN << >> ELSE BMulSmallFrom(a, k, 1, 0)

RECURSIVE BMulFrom(_, _, _)
BMulFrom(a, b, j) ==
    IF j > Len(b) THEN << >>
    ELSE BAdd(BMulSmall(a, b[j]), <<0>> \o BMulFrom(a, b, j + 1))

BMul(a, b) == BNorm(BMulFrom(a, b, 1))

RECURSIVE Zeros(_)
Zeros(k) == IF k = 0 THEN << >> ELSE <<0>> \o Zeros(k - 1)

\* a * 2^s
BShl(a, s) ==
    IF a = << >> THEN << >>
    ELSE Zeros(s \div 15) \o BMulSmall(a, 2^(s % 15))

RECURSIVE BShrLimbs(_, _, _)
BShrLimbs(a, k, i) ==
    IF i > Len(a) THEN << >>
    ELSE <<(a[i] \div k) + (Limb(a, i + 1) % k) * (Base \div k)>>
         \o BShrLimbs(a, k, i + 1)

\* floor(a / 2^s)
BShr(a, s) ==
    IF s \div 15 >= Len(a) THEN << >>
    ELSE BNorm(BShrLimbs(SubSeq(a, (s \div 15) + 1, Len(a)), 2^(s % 15), 1))

RECURSIVE IntBitLen(_)
IntBitLen(k) == IF k = 0 THEN 0 ELSE 1 + IntBitLen(k \div 2)

BBitLen(a) == IF a = << >> THEN 0 ELSE 15 * (Len(a) - 1) + IntBitLen(a[Len(a)])

\* Bit i of a, bit 0 the lowest.
BBit(a, i) == (Limb(a, (i \div 15) + 1) \div 2^(i % 15)) % 2

\* a mod 2^s is zero
BLowZero(a, s) == BShl(BShr(a, s), s) = a

Zero == [sign |-> 1, m |-> << >>, e |-> 0]

\* The binary64 nearest to sign * M * 2^E, ties to even.
Round(sign, M, E) ==
    LET L == BBitLen(M)
    IN  IF L = 0 THEN Zero
        ELSE IF L <= Precision
        THEN [sign |-> sign, m |-> BShl(M, Precision - L), e |-> E - (Precision - L)]
        ELSE LET d    == L - Precision
                 q    == BShr(M, d)
                 half == BBit(M, d - 1) = 1
                 up   == half /\ (~BLowZero(M, d - 1) \/ BBit(q, 0) = 1)
                 q1   == IF up THEN BAdd(q, <<1>>) ELSE q
             IN  IF BBitLen(q1) > Precision
                 THEN [sign |-> sign, m |-> BShr(q1, 1), e |-> E + d + 1]
                 ELSE [sign |-> sign, m |-> q1, e |-> E + d]

\* An integer as a JS number (exact below 2^31).
Num(k) == IF k < 0 THEN Round(-1, BFromInt(-k), 0) ELSE Round(1, BFromInt(k), 0)

\* a * b
fMul(a, b) ==
    The({Round(x.sign * y.sign, BMul(x.m, y.m), x.e + y.e) : x \in {a}, y \in {b}})

RECURSIVE DivBits(_, _, _, _)
\* k more quotient bits of rem / d, rem < d: <<quotient, remainder>>.
DivBits(rem, d, q, k) ==
    IF k = 0 THEN <<q, rem>>
    ELSE LET r2 == BMulSmall(rem, 2)
         IN  IF BCmp(r2, d) >= 0
             THEN DivBits(BSub(r2, d), d, 2 * q + 1, k - 1)
             ELSE DivBits(r2, d, 2 * q, k - 1)

RECURSIVE DivLimbs(_, _, _)
\* j more quotient limbs of rem / d, rem < d: <<quotient, remainder>>.
DivLimbs(rem, d, j) ==
    IF j = 0 THEN <<<< >>, rem>>
    ELSE LET top  == DivBits(rem, d, 0, 15)
             rest == DivLimbs(top[2], d, j - 1)
         IN  <<rest[1] \o <<top[1]>>, rest[2]>>

\* a / b for b # 0: 61 quotient bits and a sticky bit, then rounded.
Quotient(x, y) ==
    IF x.m = << >> THEN Zero
    ELSE LET first == BCmp(x.m, y.m) >= 0
             qr    == DivLimbs(IF first THEN BSub(x.m, y.m) ELSE x.m, y.m, 4)
             Q     == IF first THEN qr[1] \o <<1>> ELSE BNorm(qr[1])
             M     == BAdd(BMulSmall(Q, 2),
                           IF qr[2] = << >> THEN << >> ELSE <<1>>)
         IN  Round(x.sign * y.sign, M, x.e - y.e - 61)

fDiv(a, b) == The({Quotient(x, y) : x \in {a}, y \in {b}})

\* |a| < |b|, |a| = |b|, |a| > |b| as -1, 0, 1.
MagCmp(a, b) ==
    IF a.m = << >> THEN (IF b.m = << >> THEN 0 ELSE -1)
    ELSE IF b.m = << >> THEN 1
    ELSE IF a.e < b.e THEN -1
    ELSE IF a.e > b.e THEN 1
    ELSE BCmp(a.m, b.m)

fNeg(a) == The({IF x.m = << >> THEN x ELSE [x EXCEPT !.sign = -x.sign] : x \in {a}})

\* a + b
Sum(x, y) ==
    IF x.m = << >> THEN y
    ELSE IF y.m = << >> THEN x
    ELSE LET e  == IF x.e < y.e THEN x.e ELSE y.e
             A  == BShl(x.m, x.e - e)
             B  == BShl(y.m, y.e - e)
         IN  IF x.sign = y.sign THEN Round(x.sign, BAdd(A, B), e)
             ELSE IF BCmp(A, B) >= 0 THEN Round(x.sign, BSub(A, B), e)
             ELSE Round(y.sign, BSub(B, A), e)

fAdd(a, b) == The({Sum(x, y) : x \in {a}, y \in {b}})

\* a - b
fSub(a, b) == fAdd(a, fNeg(b))

\* a < b
Less(x, y) ==
    IF x.sign = 1 /\ y.sign = 1 THEN MagCmp(x, y) < 0
    ELSE IF x.sign = -1 /\ y.sign = -1 THEN MagCmp(x, y) > 0
    ELSE x.sign = -1 /\ (x.m # << >> \/ y.m # << >>)

fLt(a, b) == The({Less(x, y) : x \in {a}, y \in {b}})

\* a > b
fGt(a, b) == fLt(b, a)

\* a <= b
fLe(a, b) == ~fLt(b, a)

(***************************************************************************)
(* Layout arithmetic                                                       *)
(***************************************************************************)
\* A decimal literal such as 0.8: the binary64 nearest to num / den.
Literal(num, den) == fDiv(Num(num), Num(den))

pageWidth == Num(210)
pageHeight == Num(297)
margin == Num(20)
contentWidth == fSub(pageWidth, fMul(margin, Num(2)))
contentHeight == fSub(pageHeight, fMul(margin, Num(2)))
minWidth == Num(40)
minHeight == Num(30)
gap == Num(15)

Images == [width : 1..MaxDim, height : 1..MaxDim]

Size(w, h) == [width |-> w, height |-> h]

\* The fit without the height-constrained fallback.
FitWidthOnly(aspectRatio, maxWidth, maxHeight) ==
    Size(maxWidth, fDiv(maxWidth, aspectRatio))

\* let width = maxWidth, height = width / aspectRatio;
\* if (height > maxHeight) { height = maxHeight; width = height * aspectRatio }
FitWithin(aspectRatio, maxWidth, maxHeight) ==
    The({IF fGt(height, maxHeight)
         THEN Size(fMul(maxHeight, aspectRatio), maxHeight)
         ELSE Size(maxWidth, height)
         : height \in {fDiv(maxWidth, aspectRatio)}})

\* The floors without recomputing the other side.
EnsureMinimumOneSide(size, aspectRatio) ==
    Size(IF fLt(size.width, minWidth) THEN minWidth ELSE size.width,
         IF fLt(size.height, minHeight) THEN minHeight ELSE size.height)

\* if (width < minWidth) { width = minWidth; height = width / aspectRatio }
\* if (height < minHeight) { height = minHeight; width = height * aspectRatio }
EnsureMinimum(size, aspectRatio) ==
    The({IF fLt(s1.height, minHeight)
         THEN Size(fMul(minHeight, aspectRatio), minHeight)
         ELSE s1
         : s1 \in {IF fLt(size.width, minWidth)
                   THEN Size(minWidth, fDiv(minWidth, aspectRatio))
                   ELSE size}})

\* const aspectRatio = img.width / img.height
AspectRatio(img) == fDiv(Num(img.width), Num(img.height))

calculateImageDimensions(img, maxWidth, maxHeight) ==
    The({The({EnsureMinimum(fit, r) : fit \in {FitWithin(r, maxWidth, maxHeight)}})
         : r \in {AspectRatio(img)}})

\* const availableHeight = contentHeight - 40 (every branch)
availableHeight == fSub(contentHeight, Num(40))

\* const availableWidth = (contentWidth - gap) / 2 (side by side)
availableWidth == fDiv(fSub(contentWidth, gap), Num(2))

\* The box handed to calculateImageDimensions for the single image:
\* contentWidth * 0.8, availableHeight * 0.8.
singleBox ==
    Size(fMul(contentWidth, Literal(8, 10)), fMul(availableHeight, Literal(8, 10)))

\* The box of one column of the side-by-side page:
\* availableWidth * 0.9, availableHeight * 0.9.
sideBox ==
    Size(fMul(availableWidth, Literal(9, 10)), fMul(availableHeight, Literal(9, 10)))

Box(kind) == IF kind = "single" THEN singleBox ELSE sideBox

Rect(x, y, size) == [x |-> x, y |-> y, width |-> size.width, height |-> size.height]

\* Single image (1-image branch, page 2 of the 3-image branch):
\* imageX = margin + (contentWidth - width) / 2, imageY = margin + 40.
SinglePlacement(img) ==
    The({Rect(fAdd(margin, fDiv(fSub(contentWidth, d.width), Num(2))),
              fAdd(margin, Num(40)),
              d)
         : d \in {calculateImageDimensions(img, singleBox.width, singleBox.height)}})

\* Column k of the side-by-side page (2-image branch, page 1 of the 3-image
\* branch): image1X = margin + (availableWidth - width1) / 2,
\* image2X = margin + availableWidth + gap + (availableWidth - width2) / 2,
\* imageY = margin + 40 + (availableHeight - height) / 2.
SidePlacement(img, k) ==
    The({Rect(IF k = 1
              THEN fAdd(margin, fDiv(fSub(availableWidth, d.width), Num(2)))
              ELSE fAdd(fAdd(fAdd(margin, availableWidth), gap),
                        fDiv(fSub(availableWidth, d.width), Num(2))),
              fAdd(fAdd(margin, Num(40)),
                   fDiv(fSub(availableHeight, d.height), Num(2))),
              d)
         : d \in {calculateImageDimensions(img, sideBox.width, sideBox.height)}})

Imgs == 1..MaxImages
\* A document never has more pages than the one of the constructor plus addPage.
PageIds == {1, 2}

GenericError == "PDF generation failed (fixed message)"

Step(op, img) == [op |-> op, img |-> img]

\* The 3-image branch without its pdf.addPage().
ProgramNoAddPage(k) ==
    IF k = 1 THEN <<Step("load", 1), Step("caption", 0), Step("image", 1), Step("save", 0)>>
    ELSE IF k = 2 THEN <<Step("load", 1), Step("load", 2), Step("caption", 0),
                         Step("image", 1), Step("image", 2), Step("save", 0)>>
    ELSE IF k = 3 THEN <<Step("load", 1), Step("load", 2), Step("caption", 0),
                         Step("image", 1), Step("image", 2),
                         Step("load", 3), Step("caption", 0), Step("image", 3),
                         Step("save", 0)>>
    ELSE <<Step("save", 0)>>

\* No branch taken means nothing to save.
ProgramSkipEmptySave(k) ==
    IF k = 1 THEN <<Step("load", 1), Step("caption", 0), Step("image", 1), Step("save", 0)>>
    ELSE IF k = 2 THEN <<Step("load", 1), Step("load", 2), Step("caption", 0),
                         Step("image", 1), Step("image", 2), Step("save", 0)>>
    ELSE IF k = 3 THEN <<Step("load", 1), Step("load", 2), Step("caption", 0),
                         Step("image", 1), Step("image", 2), Step("addPage", 0),
                         Step("load", 3), Step("caption", 0), Step("image", 3),
                         Step("save", 0)>>
    ELSE << >>

\* The body of the try block, lines 126-248: the awaits and Document Writer
\* calls of each branch in program order, then pdf.save in every case.
Program(k) ==
    IF k = 1 THEN <<Step("load", 1), Step("caption", 0), Step("image", 1), Step("save", 0)>>
    ELSE IF k = 2 THEN <<Step("load", 1), Step("load", 2), Step("caption", 0),
                         Step("image", 1), Step("image", 2), Step("save", 0)>>
    ELSE IF k = 3 THEN <<Step("load", 1), Step("load", 2), Step("caption", 0),
                         Step("image", 1), Step("image", 2), Step("addPage", 0),
                         Step("load", 3), Step("caption", 0), Step("image", 3),
                         Step("save", 0)>>
    ELSE <<Step("save", 0)>>

AtStep(op) ==
    /\ status = "running"
    /\ ~awaitRaster
    /\ pc \in 1..Len(Program(n))
    /\ Program(n)[pc].op = op

CurImg == Program(n)[pc].img

\* A catch that swallows the failure.
CatchSwallow(f) == [status |-> "resolved", err |-> "none"]

\* catch (error) { console.error(...); throw new Error("PDF ...") }
Catch(f) == [status |-> "rejected", err |-> GenericError]

Entry(op, img, page, for) == [op |-> op, img |-> img, page |-> page, for |-> for]

\* addKoreanText rethrows what pdf.text threw.
AddKoreanTextRethrows(textThrows) == textThrows

\* Whether addKoreanText throws to its caller: its catch returns the promise of
\* addTextAsImage instead, and an async function never throws synchronously.
addKoreanTextThrows(textThrows) == FALSE

\* The JS thread is free to run an event handler: generatePDF is suspended at
\* an await or has settled.
Idle ==
    \/ status # "running"
    \/ pc = 0
    \/ awaitRaster
    \/ /\ pc \in 1..Len(Program(n))
       /\ Program(n)[pc].op = "load"
       /\ load[Program(n)[pc].img] = "pending"

Init ==
    /\ n \in 0..MaxImages
    /\ pc = 0
    /\ status = "running"
    /\ err = "none"
    /\ fault = "none"
    /\ load = [i \in Imgs |-> "idle"]
    /\ raster = [p \in PageIds |-> "none"]
    /\ awaitRaster = FALSE
    /\ pages = 0
    /\ curPage = 0
    /\ log = << >>
    /\ saveCalled = FALSE
    /\ delivered = FALSE
    /\ layout = "none"
    /\ imgs = << >>
    /\ place = << >>

\* await import("jspdf") resolves; new jsPDF(...) opens the document on page 1.
ImportOk ==
    /\ UNCHANGED layVars
    /\ status = "running" /\ pc = 0
    /\ pc' = 1
    /\ pages' = 1 /\ curPage' = 1
    /\ UNCHANGED <<n, status, err, fault, load, raster, awaitRaster, log,
                   saveCalled, delivered>>

\* The dynamic import rejects: outside the try, so the raw error propagates.
ImportErr ==
    /\ UNCHANGED layVars
    /\ status = "running" /\ pc = 0
    /\ status' = "rejected" /\ err' = "import" /\ fault' = "import"
    /\ UNCHANGED <<n, pc, load, raster, awaitRaster, pages, curPage, log,
                   saveCalled, delivered>>

\* loadImage(url): new Image, img.src = url; generatePDF awaits the promise.
StartLoad ==
    /\ UNCHANGED layVars
    /\ AtStep("load")
    /\ load[CurImg] = "idle"
    /\ load' = [load EXCEPT ![CurImg] = "pending"]
    /\ UNCHANGED <<n, pc, status, err, fault, raster, awaitRaster, pages,
                   curPage, log, saveCalled, delivered>>

\* img.onload: resolve(img), generatePDF resumes after the await.
LoadOk(i) ==
    /\ UNCHANGED layVars
    /\ status = "running"
    /\ load[i] = "pending"
    /\ load' = [load EXCEPT ![i] = "ok"]
    /\ pc' = pc + 1
    /\ UNCHANGED <<n, status, err, fault, raster, awaitRaster, pages, curPage,
                   log, saveCalled, delivered>>

\* img.onerror: reject, the await throws into the catch of line 249.
LoadErr(i) ==
    /\ UNCHANGED layVars
    /\ status = "running"
    /\ load[i] = "pending"
    /\ load' = [load EXCEPT ![i] = "err"]
    /\ fault' = "load"
    /\ status' = Catch("load").status
    /\ err' = Catch("load").err
    /\ UNCHANGED <<n, pc, raster, awaitRaster, pages, curPage, log, saveCalled,
                   delivered>>

\* try { addKoreanText(...) } catch { await addTextAsImage(...) }
\* textThrows: pdf.setFont / setFontSize / text throws.
\* rasterThrows: the executor of addTextAsImage throws (canvas, 2D context,
\* toDataURL), which rejects the promise it returns.
Caption ==
    /\ UNCHANGED layVars
    /\ AtStep("caption")
    /\ \E textThrows \in BOOLEAN, rasterThrows \in BOOLEAN :
        /\ rasterThrows => textThrows
        /\ IF ~textThrows
           THEN /\ log' = Append(log, Entry("text", 0, curPage, curPage))
                /\ pc' = pc + 1
                /\ UNCHANGED <<raster, awaitRaster, status, err, fault>>
           ELSE /\ log' = log
                /\ raster' = [raster EXCEPT ![curPage] =
                                 IF rasterThrows THEN "rejected" ELSE "pending"]
                /\ IF addKoreanTextThrows(textThrows)
                   THEN \* the outer catch awaits the promise
                        IF rasterThrows
                        THEN /\ fault' = "raster"
                             /\ status' = Catch("raster").status
                             /\ err' = Catch("raster").err
                             /\ UNCHANGED <<pc, awaitRaster>>
                        ELSE /\ awaitRaster' = TRUE
                             /\ UNCHANGED <<pc, status, err, fault>>
                   ELSE \* the promise is dropped, generatePDF goes on
                        /\ pc' = pc + 1
                        /\ UNCHANGED <<awaitRaster, status, err, fault>>
    /\ UNCHANGED <<n, load, pages, curPage, saveCalled, delivered>>

\* pdf.addImage(img, "JPEG", x, y, width, height) of an input image.
PlaceImage ==
    /\ UNCHANGED layVars
    /\ AtStep("image")
    /\ \E throws \in BOOLEAN :
        IF throws
        THEN /\ fault' = "place"
             /\ status' = Catch("place").status
             /\ err' = Catch("place").err
             /\ UNCHANGED <<pc, log>>
        ELSE /\ log' = Append(log, Entry("image", CurImg, curPage, curPage))
             /\ pc' = pc + 1
             /\ UNCHANGED <<fault, status, err>>
    /\ UNCHANGED <<n, load, raster, awaitRaster, pages, curPage, saveCalled,
                   delivered>>

\* pdf.addPage(): a new page, which becomes the one drawn on.
AddPage ==
    /\ UNCHANGED layVars
    /\ AtStep("addPage")
    /\ \E throws \in BOOLEAN :
        IF throws
        THEN /\ fault' = "addPage"
             /\ status' = Catch("addPage").status
             /\ err' = Catch("addPage").err
             /\ UNCHANGED <<pc, log, pages, curPage>>
        ELSE /\ pages' = pages + 1
             /\ curPage' = pages + 1
             /\ log' = Append(log, Entry("addPage", 0, pages + 1, pages + 1))
             /\ pc' = pc + 1
             /\ UNCHANGED <<fault, status, err>>
    /\ UNCHANGED <<n, load, raster, awaitRaster, saveCalled, delivered>>

\* pdf.save(fileName)
Save ==
    /\ UNCHANGED layVars
    /\ AtStep("save")
    /\ saveCalled' = TRUE
    /\ \E throws \in BOOLEAN :
        IF throws
        THEN /\ fault' = "save"
             /\ status' = Catch("save").status
             /\ err' = Catch("save").err
             /\ UNCHANGED <<pc, log, delivered>>
        ELSE /\ delivered' = TRUE
             /\ log' = Append(log, Entry("save", 0, curPage, curPage))
             /\ pc' = pc + 1
             /\ UNCHANGED <<fault, status, err>>
    /\ UNCHANGED <<n, load, raster, awaitRaster, pages, curPage>>

\* The end of the async function: its promise resolves.
Return ==
    /\ UNCHANGED layVars
    /\ status = "running"
    /\ pc = Len(Program(n)) + 1
    /\ status' = "resolved"
    /\ UNCHANGED <<n, pc, err, fault, load, raster, awaitRaster, pages, curPage,
                   log, saveCalled, delivered>>

\* img.onload of the rasterised caption: pdf.addImage(dataURL, ...) on the page
\* jsPDF is on now, then resolve(). A throw of pdf.addImage is an uncaught
\* error of the event handler: the promise never settles.
RasterOnload(p) ==
    /\ UNCHANGED layVars
    /\ Idle
    /\ raster[p] = "pending"
    /\ \E throws \in BOOLEAN :
        IF throws
        THEN /\ raster' = [raster EXCEPT ![p] = "threw"]
             /\ UNCHANGED <<log, pc, awaitRaster>>
        ELSE /\ raster' = [raster EXCEPT ![p] = "placed"]
             /\ log' = Append(log, Entry("captionImage", 0, curPage, p))
             /\ IF awaitRaster
                THEN pc' = pc + 1 /\ awaitRaster' = FALSE
                ELSE UNCHANGED <<pc, awaitRaster>>
    /\ UNCHANGED <<n, status, err, fault, load, pages, curPage, saveCalled,
                   delivered>>

\* The raster image fails to decode: addTextAsImage sets no onerror, so its
\* promise never settles.
RasterOnerror(p) ==
    /\ UNCHANGED layVars
    /\ Idle
    /\ raster[p] = "pending"
    /\ raster' = [raster EXCEPT ![p] = "decodeFailed"]
    /\ UNCHANGED <<n, pc, status, err, fault, load, awaitRaster, pages, curPage,
                   log, saveCalled, delivered>>

Next ==
    \/ ImportOk
    \/ ImportErr
    \/ StartLoad
    \/ \E i \in Imgs : LoadOk(i)
    \/ \E i \in Imgs : LoadErr(i)
    \/ Caption
    \/ PlaceImage
    \/ AddPage
    \/ Save
    \/ Return
    \/ \E p \in PageIds : RasterOnload(p)
    \/ \E p \in PageIds : RasterOnerror(p)

Spec == Init /\ [][Next]_vars

(***************************************************************************)
(* The layout of one page                                                  *)
(***************************************************************************)
\* The placements are pure functions of the image: tabulated once.
SingleTable ==
    [w \in 1..MaxDim |-> [h \in 1..MaxDim |->
        SinglePlacement([width |-> w, height |-> h])]]

SideTable ==
    [w \in 1..MaxDim |-> [h \in 1..MaxDim |-> [k \in 1..2 |->
        SidePlacement([width |-> w, height |-> h], k)]]]

LayoutInit ==
    /\ n = 0
    /\ pc = 0
    /\ status = "running"
    /\ err = "none"
    /\ fault = "none"
    /\ load = [i \in Imgs |-> "idle"]
    /\ raster = [p \in PageIds |-> "none"]
    /\ awaitRaster = FALSE
    /\ pages = 0
    /\ curPage = 0
    /\ log = << >>
    /\ saveCalled = FALSE
    /\ delivered = FALSE
    /\ layout = "none"
    /\ imgs = << >>
    /\ place = << >>

\* The page with one image.
LayoutSingle ==
    /\ layout = "none"
    /\ \E img \in Images :
        /\ imgs' = <<img>>
        /\ place' = <<SingleTable[img.width][img.height]>>
    /\ layout' = "single"
    /\ UNCHANGED procVars

\* The page with two images side by side.
LayoutSideBySide ==
    /\ layout = "none"
    /\ \E img1 \in Images, img2 \in Images :
        /\ imgs' = <<img1, img2>>
        /\ place' = <<SideTable[img1.width][img1.height][1], SideTable[img2.width][img2.height][2]>>
    /\ layout' = "sideBySide"
    /\ UNCHANGED procVars

LayoutNext == LayoutSingle \/ LayoutSideBySide

LayoutSpec == LayoutInit /\ [][LayoutNext]_vars

\* Fairness: the JS thread runs every synchronous step, the module import
\* settles and every image load that was started fires onload or onerror.
\* Nothing is assumed of the decode of a rasterised caption.
FairSpec ==
    /\ Init
    /\ [][Next]_vars
    /\ WF_vars(ImportOk \/ ImportErr)
    /\ WF_vars(StartLoad \/ Caption \/ PlaceImage \/ AddPage \/ Save \/ Return)
    /\ WF_vars(\E i \in Imgs : LoadOk(i) \/ LoadErr(i))

(***************************************************************************)
(* Properties of the control flow                                          *)
(***************************************************************************)
IsCaption(e) == e.op \in {"text", "captionImage"}

LogIdx == 1..Len(log)

CaptionsOn(p) == {i \in LogIdx : IsCaption(log[i]) /\ log[i].page = p}

ImagePlacements(i) == {j \in LogIdx : log[j].op = "image" /\ log[j].img = i}

AddPageCalls == {j \in LogIdx : log[j].op = "addPage"}

ValidCount == n \in 1..3

ExpectedPages == IF n = 3 THEN 2 ELSE 1

RasterFailed(p) == raster[p] \in {"rejected", "threw", "decodeFailed"}

LoadPending == \E i \in Imgs : load[i] = "pending"

\* C1: on every page the caption is placed before every input image of that
\* page, on the direct and on the fallback path, and the pages are written in
\* numeric order.
C1_CaptionBeforeImages ==
    /\ \A j \in LogIdx :
         log[j].op = "image" =>
            \E i \in 1..(j - 1) : IsCaption(log[i]) /\ log[i].page = log[j].page
    /\ \A i \in LogIdx, j \in LogIdx : i < j => log[i].page <= log[j].page

\* C2: when pdf.save is called every page already holds exactly one caption,
\* a caption lands only on the page it was issued for, and none is placed
\* after pdf.save.
C2_CaptionsAwaitedBeforeSave ==
    ValidCount =>
        /\ saveCalled => \A p \in 1..pages : Cardinality(CaptionsOn(p)) = 1
        /\ \A i \in LogIdx : IsCaption(log[i]) => log[i].page = log[i].for
        /\ \A i \in LogIdx, j \in LogIdx :
             (i < j /\ log[i].op = "save") => ~IsCaption(log[j])

\* C4: a failed image load, placement call, addPage or save rejects with the
\* generic error and delivers nothing; a delivered document holds every
\* requested image exactly once; a failed load of image 3 means no pdf.save.
C4_FailureAbortsWithGenericError ==
    /\ fault \in {"load", "place", "addPage", "save"} =>
          status = "rejected" /\ err = GenericError /\ ~delivered
    /\ (delivered /\ ValidCount) =>
          \A i \in 1..n : Cardinality(ImagePlacements(i)) = 1
    /\ (n = 3 /\ load[3] = "err") => ~saveCalled /\ status = "rejected"
    /\ status = "rejected" => err \in {GenericError, "import"}

C4_Witness ==
    /\ n = 3 /\ load[3] = "err" /\ status = "rejected" /\ err = GenericError
    /\ pages = 2
    /\ ImagePlacements(1) # {} /\ ImagePlacements(2) # {}

\* C5: a failure of the rasterisation fallback makes generatePDF reject, and
\* a failure of direct text placement alone never does.
C5_RasterFailureSurfaced ==
    /\ \A p \in PageIds : RasterFailed(p) => status # "resolved"
    /\ status = "rejected" => fault # "none"

\* C7: the document handed to pdf.save has 1 page for 1 or 2 images and 2
\* pages for 3; pdf.addPage is called once for 3 images and never otherwise.
C7_PageCount ==
    (saveCalled /\ ValidCount) =>
        /\ pages = ExpectedPages
        /\ Cardinality(AddPageCalls) = ExpectedPages - 1

C7_Witness ==
    /\ delivered /\ n = 3 /\ pages = 2
    /\ Cardinality(AddPageCalls) = 1

\* C8, original statement: for 0 or more than 3 images no error of its own, nothing
\* placed, no page added and no document delivered.
C8_NothingDelivered ==
    ~ValidCount =>
        /\ status = "rejected" => fault \in {"import", "save"}
        /\ \A i \in LogIdx : log[i].op = "save"
        /\ pages <= 1
        /\ ~delivered

\* C8, amended: for 0 or more than 3 images generatePDF raises no error of
\* its own, places nothing and adds no page, but still calls pdf.save: the
\* document with its single blank page is delivered.
C8_BlankDocumentSaved ==
    ~ValidCount =>
        /\ status = "rejected" => fault \in {"import", "save"}
        /\ \A i \in LogIdx : log[i].op = "save"
        /\ pages <= 1
        /\ status = "resolved" =>
              /\ delivered
              /\ pages = 1
              /\ log = <<Entry("save", 0, 1, 1)>>

C8_Witness ==
    /\ n = 0 /\ status = "resolved" /\ delivered /\ pages = 1 /\ Len(log) = 1

\* C10: under fairness of the image loads alone generatePDF settles; it is
\* never suspended on a caption rasterisation; and while a started image load
\* is pending it has not settled and pdf.save has not been called.
C10_SettlesWithLoads ==
    /\ <>(status # "running")
    /\ [](~awaitRaster)
    /\ [](LoadPending => (status = "running" /\ ~saveCalled))

C10_Witness ==
    /\ status = "resolved"
    /\ \E p \in PageIds : raster[p] = "pending"

(***************************************************************************)
(* Properties of the layout                                                *)
(***************************************************************************)
Placed == 1..Len(place)

\* The integer a * k / 2^e0, exactly (e0 <= a.e).
Scaled(a, k, e0) == BShl(BMulSmall(a.m, k), a.e - e0)

MinExp(a, b) == IF a.e < b.e THEN a.e ELSE b.e

\* width * img.height and height * img.width in exact arithmetic, as integers
\* over a common power of two.
CrossW(k) ==
    Scaled(place[k].width, imgs[k].height, MinExp(place[k].width, place[k].height))

CrossH(k) ==
    Scaled(place[k].height, imgs[k].width, MinExp(place[k].width, place[k].height))

BAbsDiff(a, b) == IF BCmp(a, b) >= 0 THEN BSub(a, b) ELSE BSub(b, a)

\* width / height = img.width / img.height, exactly.
RatioExact(k) == CrossW(k) = CrossH(k)

\* |width / height - r| <= 2^-51 * r: the round-off of the two roundings
\* (the quotient img.width / img.height and one product or quotient with it).
RatioWithinRoundoff(k) ==
    BCmp(BShl(BAbsDiff(CrossW(k), CrossH(k)), 51), CrossH(k)) <= 0

FloorsHold(k) ==
    /\ fLe(minWidth, place[k].width)
    /\ fLe(minHeight, place[k].height)

WithinBox(k) ==
    /\ fLe(place[k].width, Box(layout).width)
    /\ fLe(place[k].height, Box(layout).height)

\* C3: the two images of the side-by-side page never overlap horizontally,
\* image1X + width1 <= image2X, for all intrinsic sizes.
C3_NoHorizontalOverlap ==
    layout = "sideBySide" =>
        fLe(fAdd(place[1].x, place[1].width), place[2].x)

C9_WithinSlotBox ==
    \A k \in Placed : WithinBox(k)

\* C9, amended: a placement is within the box of its slot unless a floor
\* fired: then it is exactly 40 wide and at least as high as the box (a tall
\* image), or exactly 30 high and at least as wide as the box (a wide image).
C9_WithinSlotBoxUnlessFloor ==
    \A k \in Placed :
        \/ WithinBox(k)
        \/ /\ place[k].width = minWidth
           /\ fLe(place[k].width, Box(layout).width)
           /\ fLe(Box(layout).height, place[k].height)
        \/ /\ place[k].height = minHeight
           /\ fLe(place[k].height, Box(layout).height)
           /\ fLe(Box(layout).width, place[k].width)

C9_Witness ==
    /\ layout = "single"
    /\ place[1].height = minHeight
    /\ fGt(place[1].width, singleBox.width)

====
